---- MODULE Spec2Model ----
(***************************************************************************)
(* Model of dashboard.py: the two memoized loaders (carregar_dados,        *)
(* carregar_relatorio) and the script's render cycle that consumes the     *)
(* loaded table.  The files on disk are the environment.                   *)
(***************************************************************************)
EXTENDS Integers, Sequences, FiniteSets, TLC

VARIABLES
    arquivo,     \* what is on disk at CAMINHO_DADOS
    cache,       \* st.cache_data entry of carregar_dados
    df,          \* the script's variable df (line 67)
    msgs,        \* st.error messages shown by the current run
    excecao,     \* name of the exception that ended the current run, "" if none
    io,          \* file operations performed by the last carregar_dados() call
    pc,          \* position of the script run
    kpis,        \* aggregates computed by the tabs in the current run
    limpou,      \* history: "sim" once the cache is cleared, "recarregou" after the next load
    primeira,    \* history: outcome of the first load since the file or cache changed
    relatorio,   \* what is on disk at CAMINHO_RELATORIO
    cacheRel,    \* st.cache_data entry of carregar_relatorio
    resRel,      \* outcome of the last carregar_relatorio() call
    ioRel        \* file operations performed by the last carregar_relatorio() call

vars == <<arquivo, cache, df, msgs, excecao, io, pc, kpis, limpou, primeira,
          relatorio, cacheRel, resRel, ioRel>>

\* ---------------------------------------------------------------- bounds
MaxLinhas == 2      \* rows of a source table
MaxTexto == 2       \* characters of a report file

\* ------------------------------------------------------------- constants
CAMINHO_DADOS == "olist_lite.zip"
CAMINHO_RELATORIO == "relatorio_analise.txt"

cols_data == <<"data_compra", "data_entrega", "data_estimada">>

OutrasColunas == {"order_id", "tempo_total", "atraso_entrega", "review_score"}

Range(s) == {s[i] : i \in DOMAIN s}

TodasColunas == Range(cols_data) \cup OutrasColunas

\* ------------------------------------------------------------ timestamps
\* A pandas Timestamp; NaT is the null timestamp.
NaT == [ano |-> 0, mes |-> 0, dia |-> 0, hora |-> 0, minuto |-> 0]

T1 == "2024-03-04 08:15:00"
T2 == "2024-04-07 23:59:00"
NaoData == "not-a-date"
Vazio == ""

\* What the date parser makes of the cell texts that are dates.
Timestamps ==
    (T1 :> [ano |-> 2024, mes |-> 3, dia |-> 4, hora |-> 8, minuto |-> 15])
 @@ (T2 :> [ano |-> 2024, mes |-> 4, dia |-> 7, hora |-> 23, minuto |-> 59])

\* pd.to_datetime on one cell with the default errors='raise': an empty
\* cell (NaN) becomes NaT, a date text becomes its Timestamp, anything
\* else raises.
to_datetime_ok(texto) == texto = Vazio \/ texto \in DOMAIN Timestamps

to_datetime_celula(texto) == IF texto = Vazio THEN NaT ELSE Timestamps[texto]

\* ------------------------------------------------------------ data files
\* Rows of the CSV inside the archive, as text cells and numbers.
LinhaCsv(id, compra, entrega, estimada, tempo, atraso, nota) ==
    [order_id |-> id, data_compra |-> compra, data_entrega |-> entrega,
     data_estimada |-> estimada, tempo_total |-> tempo,
     atraso_entrega |-> atraso, review_score |-> nota]

LinhasBoas ==
    { LinhaCsv("o1", T1, T2, T2, 34, 9, 2),
      LinhaCsv("o2", Vazio, T2, T1, 7, -3, 4) }

LinhasRuins ==
    { LinhaCsv("o3", NaoData, T2, T2, 7, -3, 4),
      LinhaCsv("o1", T2, NaoData, T2, 34, 0, 5),
      LinhaCsv("o4", T2, T1, NaoData, 12, 0, 3) }

LinhasAmostra == LinhasBoas \cup LinhasRuins

SeqAte(S, n) == UNION {[1..k -> S] : k \in 0..n}

Restringe(linha, cols) == [c \in cols |-> linha[c]]

\* Headers: the full one, and those lacking date columns.
Cabecalhos ==
    { TodasColunas \ faltam : faltam \in
        { {}, {"data_entrega"}, {"data_estimada"},
          {"data_entrega", "data_estimada"}, {"data_compra"} } }

Csv(cols, linhas) == [tipo |-> "csv", cols |-> cols, linhas |-> linhas]

Ausente == [tipo |-> "ausente", cols |-> {}, linhas |-> <<>>]
NaoZip == [tipo |-> "nao_zip", cols |-> {}, linhas |-> <<>>]
CsvMalformado == [tipo |-> "csv_malformado", cols |-> {}, linhas |-> <<>>]

Arquivos ==
    {Ausente, NaoZip, CsvMalformado}
    \cup {Csv(TodasColunas, ls) : ls \in SeqAte(LinhasAmostra, MaxLinhas)}
    \cup {Csv(cols, [i \in DOMAIN ls |-> Restringe(ls[i], cols)]) :
            cols \in Cabecalhos \ {TodasColunas},
            ls \in SeqAte(LinhasBoas, MaxLinhas)}

\* ------------------------------------------------------------ DataFrames
DataFrame(cols, linhas) == [cols |-> cols, linhas |-> linhas]

\* pd.DataFrame()
DataFrameVazio == DataFrame({}, <<>>)

\* DataFrame.empty taken as "both axes of length 0".
empty_ambos_eixos(d) == d.cols = {} /\ Len(d.linhas) = 0

\* DataFrame.empty: any axis of length 0.
empty(d) == d.cols = {} \/ Len(d.linhas) = 0

\* ------------------------------------------------------- carregar_dados
Retorno(d, m, ops) == [exc |-> "", df |-> d, msgs |-> m, io |-> ops]
Levanta(e, m, ops) == [exc |-> e, df |-> DataFrameVazio, msgs |-> m, io |-> ops]

ErroNaoEncontrado == "Arquivo olist_lite.zip não encontrado. Rode o script 'atividade.py' primeiro."
ErroCritico == "ERRO CRÍTICO: O arquivo 'olist_lite.zip' não foi encontrado no GitHub. Verifique se você fez o upload do arquivo .zip corretamente."

\* os.path.exists(CAMINHO_DADOS)
exists(arq) == arq.tipo # "ausente"

\* pd.read_csv(CAMINHO_DADOS, compression='zip'): "" or the exception raised.
read_csv_exc(arq) ==
    CASE arq.tipo = "nao_zip" -> "BadZipFile"
      [] arq.tipo = "csv_malformado" -> "ParserError"
      [] OTHER -> ""

read_csv(arq) == DataFrame(arq.cols, arq.linhas)

\* df[col] = pd.to_datetime(df[col]) for one column: "" or the exception.
ConverteExc(d, col) ==
    IF col \notin d.cols THEN "KeyError"
    ELSE IF \E i \in DOMAIN d.linhas : ~to_datetime_ok(d.linhas[i][col])
         THEN "ValueError"
         ELSE ""

Converte(d, col) ==
    DataFrame(d.cols,
              [i \in DOMAIN d.linhas |->
                  [d.linhas[i] EXCEPT ![col] = to_datetime_celula(@)]])

\* The loop over cols_data from position k on: the first exception ends it.
RECURSIVE ConverteDatas(_, _)
ConverteDatas(d, k) ==
    IF k > Len(cols_data) THEN [exc |-> "", df |-> d]
    ELSE IF ConverteExc(d, cols_data[k]) # ""
         THEN [exc |-> ConverteExc(d, cols_data[k]), df |-> d]
         ELSE ConverteDatas(Converte(d, cols_data[k]), k + 1)

\* The body of carregar_dados up to its first return (lines 32-44); the
\* try/except after it is never reached.
carregar_dados(arq) ==
    IF ~exists(arq)
    THEN Retorno(DataFrameVazio, <<ErroNaoEncontrado, ErroCritico>>, <<"exists">>)
    ELSE IF read_csv_exc(arq) # ""
         THEN Levanta(read_csv_exc(arq), <<>>, <<"exists", "read_csv">>)
         ELSE LET r == ConverteDatas(read_csv(arq), 1) IN
              IF r.exc # ""
              THEN Levanta(r.exc, <<>>, <<"exists", "read_csv">>)
              ELSE Retorno(r.df, <<>>, <<"exists", "read_csv">>)

\* -------------------------------------------------------- st.cache_data
\* The memo of a function without arguments: one entry, holding the value
\* returned and the st.error elements recorded while the body ran (they
\* are replayed on a hit).  The key is the function alone: nothing of the
\* file enters it.
SemEntrada == [tem |-> FALSE, df |-> DataFrameVazio, msgs |-> <<>>]
Entrada(d, m) == [tem |-> TRUE, df |-> d, msgs |-> m]

\* A call of the decorated carregar_dados(): a hit returns a copy of the
\* stored value without running the body; a miss runs it and stores the
\* value unless the body raised.
cache_data(c, arq) ==
    IF c.tem
    THEN [res |-> Retorno(c.df, c.msgs, <<>>), cache |-> c]
    ELSE LET r == carregar_dados(arq) IN
         [res |-> r,
          cache |-> IF r.exc = "" THEN Entrada(r.df, r.msgs) ELSE c]

\* A clear that leaves the entry in place.
cache_clear_nada(c) == c

\* "Clear cache" (st.cache_data.clear()), the operator's action.
cache_clear(c) == SemEntrada

\* ----------------------------------------------------------- aggregates
SemKpis == [tempo_medio |-> <<0, 0>>, pedidos_mes |-> {}, perc_atrasos |-> -1]

RECURSIVE Soma(_, _)
Soma(linhas, col) ==
    IF linhas = <<>> THEN 0
    ELSE linhas[1][col] + Soma(Tail(linhas), col)

\* Series.mean() as the pair <<sum, count>>; count 0 stands for NaN.
mean(d, col) == <<Soma(d.linhas, col), Len(d.linhas)>>

Digitos == <<"0", "1", "2", "3", "4", "5", "6", "7", "8", "9">>
Dig(n) == Digitos[(n % 10) + 1]

\* .dt.to_period('M').astype(str): "YYYY-MM", and "NaT" for a null date.
to_period_M_str(ts) ==
    IF ts = NaT THEN <<"N", "a", "T">>
    ELSE <<Dig(ts.ano \div 1000), Dig(ts.ano \div 100), Dig(ts.ano \div 10),
           Dig(ts.ano), "-", Dig(ts.mes \div 10), Dig(ts.mes)>>

\* df['mes_dt'] = df['data_compra'].dt.to_period('M').astype(str)
com_mes_dt(d) ==
    DataFrame(d.cols \cup {"mes_dt"},
              [i \in DOMAIN d.linhas |->
                  [c \in d.cols \cup {"mes_dt"} |->
                      IF c = "mes_dt"
                      THEN to_period_M_str(d.linhas[i]["data_compra"])
                      ELSE d.linhas[i][c]]])

\* The entry if the script's df were the stored object itself.
cache_apos_atribuicao_mesmo_objeto(c, d) == IF c.tem THEN [c EXCEPT !.df = d] ELSE c

\* What assigning a column to the script's df, now d, does to the memo entry:
\* nothing, since st.cache_data stores a serialized value and every call
\* hands out an object of its own.
cache_apos_atribuicao(c, d) == c

\* df.groupby('mes_dt')['order_id'].nunique()
nunique_por_mes(d) ==
    { <<m, Cardinality({d.linhas[i]["order_id"] :
                          i \in {j \in DOMAIN d.linhas : d.linhas[j]["mes_dt"] = m}})>> :
        m \in {d.linhas[i]["mes_dt"] : i \in DOMAIN d.linhas} }

\* df[df['atraso_entrega'] > 0].shape[0]
qtd_atrasos(d) ==
    Cardinality({i \in DOMAIN d.linhas : d.linhas[i]["atraso_entrega"] > 0})

\* (qtd_atrasos / df.shape[0]) * 100, in tenths of a percent, truncated.
perc_atrasos(d) == (qtd_atrasos(d) * 1000) \div Len(d.linhas)

\* ------------------------------------------------------- the script run
Terminais == {"inicio", "parado", "fim", "carga_falhou", "aba_falhou"}

SemPrimeira == [tem |-> FALSE, exc |-> "", df |-> DataFrameVazio]

InitDados ==
    /\ arquivo \in Arquivos
    /\ cache = SemEntrada
    /\ df = DataFrameVazio
    /\ msgs = <<>>
    /\ excecao = ""
    /\ io = <<>>
    /\ pc = "inicio"
    /\ kpis = SemKpis
    /\ limpou = "nao"
    /\ primeira = SemPrimeira

\* A rerun of the script up to `df = carregar_dados()`.
Executar ==
    /\ pc \in Terminais
    /\ LET c == cache_data(cache, arquivo) IN
       /\ cache' = c.cache
       /\ df' = c.res.df
       /\ msgs' = c.res.msgs
       /\ excecao' = c.res.exc
       /\ io' = c.res.io
       /\ pc' = IF c.res.exc = "" THEN "verificar" ELSE "carga_falhou"
       /\ primeira' = IF primeira.tem THEN primeira
                      ELSE [tem |-> TRUE, exc |-> c.res.exc, df |-> c.res.df]
    /\ kpis' = SemKpis
    /\ limpou' = IF limpou = "sim" THEN "recarregou" ELSE "nao"
    /\ UNCHANGED <<arquivo, relatorio, cacheRel, resRel, ioRel>>

\* if df.empty: st.stop()
VerificarVazio ==
    /\ pc = "verificar"
    /\ pc' = IF empty(df) THEN "parado" ELSE "aba1"
    /\ UNCHANGED <<arquivo, cache, df, msgs, excecao, io, kpis, limpou, primeira,
                   relatorio, cacheRel, resRel, ioRel>>

\* Tab 1: the gauge's mean delivery time and the monthly order counts.
Aba1 ==
    /\ pc = "aba1"
    /\ IF {"tempo_total", "data_compra", "order_id"} \subseteq df.cols
       THEN /\ df' = com_mes_dt(df)
            /\ cache' = cache_apos_atribuicao(cache, com_mes_dt(df))
            /\ kpis' = [kpis EXCEPT !.tempo_medio = mean(df, "tempo_total"),
                                    !.pedidos_mes = nunique_por_mes(com_mes_dt(df))]
            /\ pc' = "aba3"
            /\ UNCHANGED excecao
       ELSE /\ excecao' = "KeyError"
            /\ pc' = "aba_falhou"
            /\ UNCHANGED <<df, kpis, cache>>
    /\ UNCHANGED <<arquivo, msgs, io, limpou, primeira,
                   relatorio, cacheRel, resRel, ioRel>>

\* Tab 3: the delay rate divides by the row count.
Aba3 ==
    /\ pc = "aba3"
    /\ IF Len(df.linhas) = 0
       THEN /\ excecao' = "ZeroDivisionError"
            /\ pc' = "aba_falhou"
            /\ UNCHANGED kpis
       ELSE /\ kpis' = [kpis EXCEPT !.perc_atrasos = perc_atrasos(df)]
            /\ pc' = "fim"
            /\ UNCHANGED excecao
    /\ UNCHANGED <<arquivo, cache, df, msgs, io, limpou, primeira,
                   relatorio, cacheRel, resRel, ioRel>>

\* The environment puts other content at CAMINHO_DADOS (or removes it).
SubstituirArquivo ==
    /\ pc \in Terminais
    /\ \E novo \in Arquivos \ {arquivo} : arquivo' = novo
    /\ primeira' = SemPrimeira
    /\ UNCHANGED <<cache, df, msgs, excecao, io, pc, kpis, limpou,
                   relatorio, cacheRel, resRel, ioRel>>

\* The operator clears the cache between runs.
LimparCache ==
    /\ pc \in Terminais
    /\ cache' = cache_clear(cache)
    /\ limpou' = "sim"
    /\ primeira' = SemPrimeira
    /\ UNCHANGED <<arquivo, df, msgs, excecao, io, pc, kpis,
                   relatorio, cacheRel, resRel, ioRel>>

\* --------------------------------------------------- carregar_relatorio
\* The report file is text; CR and LF are its line-ending characters.
CR == "CR"
LF == "LF"
Caracteres == {"a", CR, LF}

ArquivoTexto(t) == [existe |-> TRUE, texto |-> t]
RelAusente == [existe |-> FALSE, texto |-> <<>>]

Relatorios == {RelAusente} \cup {ArquivoTexto(t) : t \in SeqAte(Caracteres, MaxTexto)}

\* "Relatório não encontrado."
NaoEncontrado ==
    <<"R", "e", "l", "a", "t", "ó", "r", "i", "o", " ", "n", "ã", "o", " ",
      "e", "n", "c", "o", "n", "t", "r", "a", "d", "o", ".">>

\* f.read() of a file opened with open(path, 'r', encoding='utf-8'): text
\* mode with the default newline=None reads "\r\n" and a lone "\r" as "\n".
RECURSIVE read(_)
read(t) ==
    IF t = <<>> THEN <<>>
    ELSE IF t[1] = CR
         THEN IF Len(t) >= 2 /\ t[2] = LF
              THEN <<LF>> \o read(SubSeq(t, 3, Len(t)))
              ELSE <<LF>> \o read(Tail(t))
         ELSE <<t[1]>> \o read(Tail(t))

\* The body with the file read without newline translation.
carregar_relatorio_sem_traducao(rel) ==
    IF rel.existe
    THEN [texto |-> rel.texto, io |-> <<"exists", "open", "read">>]
    ELSE [texto |-> NaoEncontrado, io |-> <<"exists">>]

\* The body of carregar_relatorio (lines 60-63).
carregar_relatorio(rel) ==
    IF rel.existe
    THEN [texto |-> read(rel.texto), io |-> <<"exists", "open", "read">>]
    ELSE [texto |-> NaoEncontrado, io |-> <<"exists">>]

SemEntradaRel == [tem |-> FALSE, texto |-> <<>>]

\* A call of the decorated carregar_relatorio().
cache_data_rel(c, rel) ==
    IF c.tem
    THEN [res |-> [texto |-> c.texto, io |-> <<>>], cache |-> c]
    ELSE LET r == carregar_relatorio(rel) IN
         [res |-> r, cache |-> [tem |-> TRUE, texto |-> r.texto]]

InitRel ==
    /\ relatorio \in Relatorios
    /\ cacheRel = SemEntradaRel
    /\ resRel = <<>>
    /\ ioRel = <<>>

ChamarRelatorio ==
    /\ LET c == cache_data_rel(cacheRel, relatorio) IN
       /\ cacheRel' = c.cache
       /\ resRel' = c.res.texto
       /\ ioRel' = c.res.io
    /\ UNCHANGED <<relatorio, arquivo, cache, df, msgs, excecao, io, pc, kpis,
                   limpou, primeira>>

SubstituirRelatorio ==
    /\ \E novo \in Relatorios \ {relatorio} : relatorio' = novo
    /\ UNCHANGED <<cacheRel, resRel, ioRel, arquivo, cache, df, msgs, excecao,
                   io, pc, kpis, limpou, primeira>>

LimparCacheRel ==
    /\ cacheRel' = SemEntradaRel
    /\ UNCHANGED <<relatorio, resRel, ioRel, arquivo, cache, df, msgs, excecao,
                   io, pc, kpis, limpou, primeira>>

\* ------------------------------------------------------- specifications
\* The dataset side: the script's runs, with the report left alone.
Init ==
    /\ InitDados
    /\ relatorio = RelAusente
    /\ cacheRel = SemEntradaRel
    /\ resRel = <<>>
    /\ ioRel = <<>>

Next ==
    \/ Executar
    \/ VerificarVazio
    \/ Aba1
    \/ Aba3
    \/ SubstituirArquivo
    \/ LimparCache

Spec == Init /\ [][Next]_vars

\* The report side: calls of carregar_relatorio, with the dataset left alone.
InitRelatorio ==
    /\ InitRel
    /\ arquivo = Ausente
    /\ cache = SemEntrada
    /\ df = DataFrameVazio
    /\ msgs = <<>>
    /\ excecao = ""
    /\ io = <<>>
    /\ pc = "inicio"
    /\ kpis = SemKpis
    /\ limpou = "nao"
    /\ primeira = SemPrimeira

NextRelatorio ==
    \/ ChamarRelatorio
    \/ SubstituirRelatorio
    \/ LimparCacheRel

SpecRelatorio == InitRelatorio /\ [][NextRelatorio]_vars

\* --------------------------------------------------------------- claims
Corrompido(arq) == arq.tipo \in {"nao_zip", "csv_malformado"}

TemDatas(arq) == arq.tipo = "csv" /\ Range(cols_data) \subseteq arq.cols

\* The rows of a source table whose purchase date is a date.
ComprasValidas(arq) ==
    {i \in DOMAIN arq.linhas : arq.linhas[i]["data_compra"] \in DOMAIN Timestamps}

\* The other date columns of a source table hold only cells that parse.
OutrasDatasBoas(arq) ==
    \A i \in DOMAIN arq.linhas : \A c \in {"data_entrega", "data_estimada"} :
        to_datetime_ok(arq.linhas[i][c])

\* C1: a load that runs on a file that exists but cannot be decompressed or
\* parsed returns an empty table with a diagnostic message and raises nothing.
C1_CorrompidoViraVazio ==
    [][(Executar /\ ~cache.tem /\ Corrompido(arquivo))
          => (excecao' = "" /\ empty(df') /\ msgs' # <<>>)]_vars

\* C2: a load that runs on a table with N rows, M of them with a parseable
\* data_compra, returns exactly M rows, none with a null data_compra, and
\* does not abort; the cached table is that table.
C2_SoComprasValidas ==
    [][(Executar /\ ~cache.tem /\ TemDatas(arquivo) /\ OutrasDatasBoas(arquivo))
          => /\ excecao' = ""
             /\ Len(df'.linhas) = Cardinality(ComprasValidas(arquivo))
             /\ \A i \in DOMAIN df'.linhas :
                   /\ "data_compra" \in DOMAIN df'.linhas[i]
                   /\ df'.linhas[i]["data_compra"] # NaT
             /\ cache'.tem /\ cache'.df = df']_vars

\* C3: a load while the source path does not exist returns an empty table
\* and a non-empty diagnostic, reads no file and raises nothing.
C3_AusenteViraVazio ==
    [][(Executar /\ ~exists(arquivo))
          => /\ excecao' = ""
             /\ empty(df')
             /\ msgs' # <<>>
             /\ "read_csv" \notin Range(io')]_vars

\* C4: with no cache-clear and no change of the file since an earlier load,
\* a load performs no file I/O and returns a table equal to that first result.
C4_SoPrimeiraLe ==
    [][(Executar /\ primeira.tem)
          => /\ io' = <<>>
             /\ excecao' = ""
             /\ df' = primeira.df]_vars

\* C5: once a load is cached and the file is replaced by other loadable
\* content, the next load returns the table of the new content.
C5_RecargaReflete ==
    [][(Executar /\ cache.tem /\ carregar_dados(arquivo).exc = "")
          => df' = carregar_dados(arquivo).df]_vars

\* C6: the first load after a cache-clear runs the loader again, reading the
\* file if there is one, changed or not; if it returns, the cache holds
\* exactly the table it produced from the file.
C6_LimparForcaLeitura ==
    [][(Executar /\ limpou = "sim")
          => /\ io' # <<>>
             /\ exists(arquivo) => "read_csv" \in Range(io')
             /\ excecao' = "" =>
                   /\ cache' = Entrada(df', msgs')
                   /\ df'.cols = arquivo.cols
                   /\ Len(df'.linhas) = Len(arquivo.linhas)]_vars

\* A load that followed a cache-clear has read the file again and cached
\* its non-empty table.
C6_Witness ==
    /\ limpou = "recarregou"
    /\ pc = "verificar"
    /\ "read_csv" \in Range(io)
    /\ cache.tem
    /\ cache.df = df
    /\ ~empty(df)

DiasSemana == {"Segunda", "Terça", "Quarta", "Quinta", "Sexta", "Sábado", "Domingo"}

\* The Portuguese weekday of a calendar date (0 = Sunday in the congruence).
DiaSemanaPT(ts) ==
    LET t == <<0, 3, 2, 5, 0, 3, 5, 1, 4, 6, 2, 4>>
        y == IF ts.mes < 3 THEN ts.ano - 1 ELSE ts.ano
        w == (y + (y \div 4) - (y \div 100) + (y \div 400) + t[ts.mes] + ts.dia) % 7
    IN <<"Domingo", "Segunda", "Terça", "Quarta", "Quinta", "Sexta", "Sábado">>[w + 1]

\* C7: every row of a table returned by a load that ran has hora_compra, the
\* hour of its data_compra, and dia_semana_pt, one of the seven Portuguese
\* weekday names and the weekday of its data_compra.
C7_ColunasDerivadas ==
    [][(Executar /\ ~cache.tem /\ excecao' = "")
          => \A i \in DOMAIN df'.linhas :
                LET l == df'.linhas[i] IN
                /\ {"hora_compra", "dia_semana_pt"} \subseteq DOMAIN l
                /\ l["hora_compra"] = l["data_compra"].hora
                /\ l["dia_semana_pt"] \in DiasSemana
                /\ l["dia_semana_pt"] = DiaSemanaPT(l["data_compra"])]_vars

\* C8: a load that runs on a table whose purchase dates all parse keeps every
\* row and does not abort; a cell of data_entrega or data_estimada that does
\* not parse is null in the returned table.
C8_OutrasDatasPermissivas ==
    [][(Executar /\ ~cache.tem /\ TemDatas(arquivo)
          /\ \A i \in DOMAIN arquivo.linhas :
                arquivo.linhas[i]["data_compra"] \in DOMAIN Timestamps)
          => /\ excecao' = ""
             /\ Len(df'.linhas) = Len(arquivo.linhas)
             /\ \A i \in DOMAIN df'.linhas :
                   \A c \in {"data_entrega", "data_estimada"} :
                      ~to_datetime_ok(arquivo.linhas[i][c]) => df'.linhas[i][c] = NaT]_vars

\* C9: in every run, no tab computes anything from an empty table: the run
\* is past the emptiness check only with a non-empty table, aggregates exist
\* only for a non-empty table, and no division by a zero row count happens.
C9_VazioPara ==
    /\ pc \in {"aba1", "aba3", "fim", "aba_falhou"} => ~empty(df)
    /\ kpis # SemKpis => ~empty(df)
    /\ excecao # "ZeroDivisionError"

\* A run stopped on a table that has its columns but no rows.
C9_Witness ==
    /\ pc = "parado"
    /\ df.cols # {}
    /\ Len(df.linhas) = 0
    /\ kpis = SemKpis
    /\ excecao = ""

Mantidos(t) == {i \in DOMAIN t : ~(t[i] = LF /\ i > 1 /\ t[i - 1] = CR)}

\* r is t with every CR LF pair and every lone CR read as one LF.
Traduzido(t, r) ==
    /\ Len(r) = Cardinality(Mantidos(t))
    /\ \A i \in Mantidos(t) :
          r[Cardinality({j \in Mantidos(t) : j <= i})] = IF t[i] = CR THEN LF ELSE t[i]

BemFormadoSemOpcionais(arq) ==
    /\ arq.tipo = "csv"
    /\ "data_compra" \in arq.cols
    /\ {"data_entrega", "data_estimada"} \ arq.cols # {}
    /\ \A i \in DOMAIN arq.linhas : \A c \in Range(cols_data) \cap arq.cols :
          to_datetime_ok(arq.linhas[i][c])

\* C11: a load that runs on a well-formed table lacking data_entrega and/or
\* data_estimada does not fail and returns that table, every row kept, with
\* data_compra converted to a timestamp.
C11_SoColunasPresentes ==
    [][(Executar /\ ~cache.tem /\ BemFormadoSemOpcionais(arquivo))
          => /\ excecao' = ""
             /\ df'.cols = arquivo.cols
             /\ Len(df'.linhas) = Len(arquivo.linhas)
             /\ \A i \in DOMAIN df'.linhas :
                   df'.linhas[i]["data_compra"]
                      = to_datetime_celula(arquivo.linhas[i]["data_compra"])]_vars

\* C12: the memo entry changes only by being cleared or by a load that runs
\* storing the whole table it produced; no step of the render cycle changes
\* it, the entry never holds the mes_dt column the tabs add, and a load that
\* finds the entry returns a table equal to it.
C12_CacheNuncaMutado ==
    [][/\ cache' # cache =>
            \/ LimparCache
            \/ /\ Executar
               /\ ~cache.tem
               /\ cache' = Entrada(carregar_dados(arquivo).df, carregar_dados(arquivo).msgs)
       /\ (VerificarVazio \/ Aba1 \/ Aba3) => cache' = cache
       /\ cache'.tem => "mes_dt" \notin cache'.df.cols
       /\ (Executar /\ cache.tem) => (df' = cache.df /\ cache' = cache)]_vars

\* A run served from the memo has added mes_dt to its table, and the memo
\* entry is still that table without the column.
C12_Witness ==
    /\ pc \in {"aba3", "fim"}
    /\ io = <<>>
    /\ cache.tem
    /\ "mes_dt" \in df.cols
    /\ "mes_dt" \notin cache.df.cols
    /\ df = com_mes_dt(cache.df)

====
